---- MODULE Spec2Model ----
(***************************************************************************)
(* A model of the replicated key/value store of src/src/node.py and        *)
(* src/src/server.py: one Node object per peer, its Flask handlers, and    *)
(* the threads it starts (election timer, ask_for_vote, send_heartbeat,    *)
(* handle_put and spread_update).                                          *)
(*                                                                         *)
(* Granularity.  The peer's threads share the Node object without any lock *)
(* except Node.lock.  A thread is preempted where it makes a blocking call *)
(* (utils.send, time.sleep, lock.acquire) or prints between reading a      *)
(* field and writing it; each action below is the code between two such    *)
(* points.  A blocked RPC is a record whose pc says how far the call got:  *)
(* "req" (request on the wire), "rep" (reply on the wire), and for the     *)
(* check-then-write pairs of the code an intermediate pc ("grant", "down").*)
(***************************************************************************)
EXTENDS Integers, Sequences, FiniteSets, TLC

\* ---------------------------------------------------------------- constants

FOLLOWER == 0
CANDIDATE == 1
LEADER == 2

\* The peers a roster (ip_list file) may name.
Node == 1..3

\* Python's None for Node.leader.
NoLeader == 0

\* Python's None for Node.staged / a vote request's "staged" field.
NoEntry == [key |-> "none", value |-> 0]

\* The reply of a client route (server.py:9-95): its code, the request's
\* payload if the reply echoes it, the value read from the map (0: none), and
\* the redirect target if the reply has a "message".  NoReply: no request has
\* been served yet.
Reply(r, c, p, v, red, m) ==
    [route |-> r, code |-> c, payload |-> p, read |-> v, redirect |-> red,
     message |-> m]
NoReply == Reply("none", "none", NoEntry, 0, FALSE, NoLeader)

\* ------------------------------------------------------------------- bounds

\* Highest term an election may start.
MaxTerm == 2
\* Elections started, over all peers.
MaxElections == 2
\* Client PUT requests accepted by leaders, over all peers.
MaxPut == 2

Key == {"x"}
Entry(k, v) == [key |-> k, value |-> v]

\* A run's environment: the roster, the peers whose election timer may
\* expire and how many times in all, how many client PUTs reach a leader and
\* whether they come only after the last timer expiry, and whether the
\* leaders' periodic send_heartbeat threads get to run.
Scenario(c, t, e, w, l, b) ==
    [cluster |-> c, timers |-> t, elections |-> e, puts |-> w, late |-> l,
     beat |-> b, crash |-> FALSE, loss |-> FALSE]

\* The runs of the main specification: a single-node cluster; three peers
\* electing, with heartbeats; three peers with one election and MaxPut
\* writes, with heartbeats; three peers with elections and one write.
Scenarios ==
    { Scenario({1}, {1}, MaxElections, MaxPut, FALSE, TRUE),
      Scenario({1, 2, 3}, {1, 2, 3}, MaxElections, 0, FALSE, TRUE),
      Scenario({1, 2, 3}, {1, 2, 3}, 1, MaxPut, FALSE, TRUE),
      Scenario({1, 2, 3}, {1, 2, 3}, MaxElections, 1, FALSE, FALSE) }

\* The run of the contention specification: two of three peers campaign,
\* then MaxPut writes arrive.
Contention == Scenario({1, 2, 3}, {1, 3}, MaxElections, MaxPut, TRUE, FALSE)

\* The run of the client-route specification: peer 1 campaigns once, one
\* write arrives, and clients send requests to every peer.
Serving == Scenario({1, 2, 3}, {1}, 1, 1, FALSE, FALSE)

\* The run of the convergence specification: peer 1 campaigns once, one write
\* arrives, a utils.send of a directive may time out, and the leader's
\* periodic heartbeats run.
Lossy == [Scenario({1, 2, 3}, {1}, 1, 1, FALSE, TRUE) EXCEPT !.loss = TRUE]

\* The run of the leader-failure specification: peers 1 and 2 campaign, one
\* write arrives, and the leader's process may die.
LeaderFailure ==
    [Scenario({1, 2, 3}, {1, 2}, MaxElections, 1, FALSE, FALSE) EXCEPT !.crash = TRUE]

\* -------------------------------------------------------------------- state

VARIABLES
    scenario,     \* the run's environment (constant over a run)
    term,         \* Node.term
    status,       \* Node.status
    voteCount,    \* Node.voteCount
    majority,     \* Node.majority
    leader,       \* Node.leader
    commitIdx,    \* Node.commitIdx
    log,          \* Node.log
    DB,           \* Node.DB
    staged,       \* Node.staged
    lock,         \* Node.lock is held
    timerAlive,   \* Node.timeout_thread is alive whenever the peer is not leader
    voteReqs,     \* the ask_for_vote threads
    hbs,          \* the send_heartbeat threads
    puts,         \* the handle_put invocations and their spread_update threads
    elections,    \* elections started so far
    nput,         \* client PUTs accepted so far
    down,         \* the peers whose process has crashed
    reply         \* what the last request served by an HTTP handler returned

nodeVars == <<term, status, voteCount, majority, leader, timerAlive>>
storeVars == <<commitIdx, log, DB, staged>>
envVars == <<scenario, down, reply>>
vars == <<scenario, term, status, voteCount, majority, leader, commitIdx, log, DB,
          staged, lock, timerAlive, voteReqs, hbs, puts, elections, nput, down,
          reply>>

\* Node.fellow, in roster order (server.py pops the peer's own address).
cluster == scenario.cluster
fellow(n) == cluster \ {n}

Replace(S, old, new) == (S \ {old}) \cup {new}

\* Python truthiness of a staged entry: None is false, a payload dict is true.
Truthy(e) == e # NoEntry

\* --------------------------------------------------------------------- Init

InitNodes ==
    /\ term = [n \in Node |-> 0]
    /\ status = [n \in Node |-> FOLLOWER]
    /\ voteCount = [n \in Node |-> 0]
    /\ majority = [n \in Node |-> IF n \in cluster
                                     THEN (Cardinality(cluster) - 1) \div 2 + 1
                                     ELSE 0]
    /\ leader = [n \in Node |-> NoLeader]
    /\ commitIdx = [n \in Node |-> 0]
    /\ log = [n \in Node |-> <<>>]
    /\ DB = [n \in Node |-> [k \in Key |-> 0]]
    /\ staged = [n \in Node |-> NoEntry]
    /\ lock = [n \in Node |-> FALSE]
    /\ timerAlive = [n \in Node |-> n \in cluster]
    /\ voteReqs = {}
    /\ hbs = {}
    /\ puts = {}
    /\ elections = 0
    /\ nput = 0
    /\ down = {}
    /\ reply = NoReply

Init ==
    /\ scenario \in Scenarios
    /\ InitNodes

\* ------------------------------------------------------------ pure helpers

\* utils / node.py:67 -- the majority startElection computes.
MajorityOf(nFellows) == (nFellows + 1) \div 2 + 1

\* A faulty grant predicate that also grants on an equal term: the vote
\* grant property fails with it.
GrantVoteOnEqualTerm(n, t, cidx, stg) ==
    /\ term[n] <= t
    /\ commitIdx[n] <= cidx
    /\ (Truthy(stg) \/ staged[n] = stg)

\* node.py:118 -- decide_vote's grant predicate on receiver n.
GrantVote(n, t, cidx, stg) ==
    /\ term[n] < t
    /\ commitIdx[n] <= cidx
    /\ (Truthy(stg) \/ staged[n] = stg)

\* Faulty variants of commit's two updates (an index that skips one, an
\* append that is lost): the log invariants below fail with either.
CommitIdxSkips(c) == c + 2
LogAppendLost(l, e) == l

\* node.py:303 -- commit: self.commitIdx += 1
CommitIdxAfter(c) == c + 1

\* node.py:304 -- commit: self.log.append(self.staged)
LogAfterCommit(l, e) == Append(l, e)

\* node.py:305-307 -- commit: self.DB[key] = value
DBAfterCommit(db, e) == [db EXCEPT ![e.key] = e.value]

\* The fellows a spread_update / thread fan-out visits, in roster order.
FirstFellow(n) == IF fellow(n) = {} THEN 0
                  ELSE CHOOSE f \in fellow(n) : \A g \in fellow(n) : f <= g
NextFellow(n, f) == IF {g \in fellow(n) : g > f} = {} THEN 0
                    ELSE CHOOSE g \in fellow(n) :
                            g > f /\ \A h \in fellow(n) : h > f => g <= h

\* node.py:135-137, 139-145 -- the send_heartbeat threads startHeartBeat
\* starts, each with the message it builds once from the term at its start.
HbThreads(n) ==
    {[src |-> n, dst |-> f, term |-> term[n], pc |-> "req", rterm |-> 0] :
        f \in IF scenario.beat THEN fellow(n) ELSE {}}

\* node.py:87-88, 94 -- the ask_for_vote threads send_vote_req starts for an
\* election of peer n in term t.
VoteThreads(n, t) ==
    {[src |-> n, dst |-> f, term |-> t, cidx |-> commitIdx[n],
      staged |-> staged[n], pc |-> "req", choice |-> FALSE, rterm |-> 0] :
        f \in fellow(n)}

\* A vote request once decide_vote has read it: its commitIdx and staged
\* fields are not read again.
Answered(r) == [r EXCEPT !.cidx = 0, !.staged = NoEntry]

\* node.py:261-266 -- a handle_put invocation, up to lock.acquire().
\* hb: called by startHeartBeat (the heartbeat threads start when it returns).
NewPut(n, e, byHb) ==
    [node |-> n, payload |-> e, hb |-> byHb, pc |-> "acquire", conf |-> {},
     lterm |-> 0, lcidx |-> 0, lto |-> 0,
     cterm |-> 0, ccidx |-> 0, cto |-> 0, ret |-> "none"]

\* ----------------------------------------------------------------- election

\* node.py:215-225, 58-70 -- timeout_loop finds the deadline passed and
\* calls startElection.
Timeout(n) ==
    /\ n \in scenario.timers
    /\ n \notin down
    /\ timerAlive[n]
    /\ status[n] # LEADER
    /\ term[n] < MaxTerm
    /\ elections < scenario.elections
    /\ term' = [term EXCEPT ![n] = @ + 1]
    /\ voteCount' = [voteCount EXCEPT ![n] = 1]
    /\ status' = [status EXCEPT ![n] = CANDIDATE]
    /\ leader' = [leader EXCEPT ![n] = NoLeader]
    /\ majority' = [majority EXCEPT ![n] = MajorityOf(Cardinality(fellow(n)))]
    /\ voteReqs' = voteReqs \cup VoteThreads(n, term[n] + 1)
    /\ elections' = elections + 1
    /\ UNCHANGED <<envVars, storeVars, lock, timerAlive, hbs, puts, nput>>

\* server.py:126-131, node.py:118, 123-125 -- vote_req reaches the voter:
\* decide_vote evaluates its predicate.  A denial replies at once; a grant
\* goes on to reset_timeout() before it writes the term.
DecideVote(r) ==
    /\ r \in voteReqs
    /\ r.pc = "req"
    /\ r.dst \notin down
    /\ IF GrantVote(r.dst, r.term, r.cidx, r.staged)
       THEN voteReqs' = Replace(voteReqs, r, Answered([r EXCEPT !.pc = "grant"]))
       ELSE voteReqs' = Replace(voteReqs, r,
                Answered([r EXCEPT !.pc = "rep", !.choice = FALSE,
                                   !.rterm = term[r.dst]]))
    /\ UNCHANGED <<envVars, nodeVars, storeVars, lock, hbs, puts, elections, nput>>

\* node.py:119-122 -- decide_vote, granting: self.term = term; return.
DecideVoteGrant(r) ==
    /\ r \in voteReqs
    /\ r.pc = "grant"
    /\ term' = [term EXCEPT ![r.dst] = r.term]
    /\ voteReqs' = Replace(voteReqs, r,
                [r EXCEPT !.pc = "rep", !.choice = TRUE, !.rterm = r.term])
    /\ UNCHANGED <<envVars, status, voteCount, majority, leader, timerAlive,
                   storeVars, lock, hbs, puts, elections, nput>>

\* node.py:98-102, 46-56, 127-137 -- ask_for_vote gets a granted vote while
\* the peer is candidate: incrementVote, and on a majority the peer is
\* leader and startHeartBeat runs (re-proposing a staged entry first).
VoteGranted(r) ==
    /\ r \in voteReqs
    /\ r.pc = "rep"
    /\ r.choice
    /\ status[r.src] = CANDIDATE
    /\ LET n == r.src
           won == voteCount[n] + 1 >= majority[n]
       IN /\ voteCount' = [voteCount EXCEPT ![n] = @ + 1]
          /\ status' = [status EXCEPT ![n] = IF won THEN LEADER ELSE @]
          /\ leader' = [leader EXCEPT ![n] = IF won THEN n ELSE @]
          /\ IF won /\ Truthy(staged[n])
             THEN /\ puts' = puts \cup {NewPut(n, staged[n], TRUE)}
                  /\ hbs' = hbs
             ELSE /\ puts' = puts
                  /\ hbs' = IF won THEN hbs \cup HbThreads(n) ELSE hbs
    /\ voteReqs' = voteReqs \ {r}
    /\ UNCHANGED <<envVars, term, majority, timerAlive, storeVars, lock,
                   elections, nput>>

\* node.py:100-109 -- ask_for_vote gets a reply it does not count: a grant
\* when no longer candidate, or a denial; a denial with a higher term goes
\* on (past the print) to the step-down.
VoteNotCounted(r) ==
    /\ r \in voteReqs
    /\ r.pc = "rep"
    /\ ~(r.choice /\ status[r.src] = CANDIDATE)
    /\ IF ~r.choice /\ r.rterm > term[r.src]
       THEN voteReqs' = Replace(voteReqs, r, [r EXCEPT !.pc = "down"])
       ELSE voteReqs' = voteReqs \ {r}
    /\ UNCHANGED <<envVars, nodeVars, storeVars, lock, hbs, puts, elections, nput>>

\* node.py:219 -- timeout_loop ends once it reads status == LEADER.  Every
\* other demotion of a leader calls init_timeout, which restarts the thread;
\* ask_for_vote's does not, so there the thread is alive only if it had not
\* yet read the status: either outcome of that race.
TimerAfterDemotion(n) == IF status[n] = LEADER THEN {TRUE, FALSE} ELSE {timerAlive[n]}

\* node.py:107-109 -- ask_for_vote steps down: self.term = term;
\* self.status = FOLLOWER.
VoteStepDown(r) ==
    /\ r \in voteReqs
    /\ r.pc = "down"
    /\ term' = [term EXCEPT ![r.src] = r.rterm]
    /\ status' = [status EXCEPT ![r.src] = FOLLOWER]
    /\ \E alive \in TimerAfterDemotion(r.src) :
            timerAlive' = [timerAlive EXCEPT ![r.src] = alive]
    /\ voteReqs' = voteReqs \ {r}
    /\ UNCHANGED <<envVars, voteCount, majority, leader, storeVars,
                   lock, hbs, puts, elections, nput>>

\* ---------------------------------------------------------------- heartbeat

\* A heartbeat message: node.py:144 (periodic, action "none"), 269-275 (log
\* directive), 287-293 (commit directive).
HbMsg(t, a, act, e, cidx) ==
    [term |-> t, addr |-> a, action |-> act, payload |-> e, commitIdx |-> cidx]

\* A faulty test that accepts every heartbeat: the stale-heartbeat property
\* fails with it.
HbAlwaysAccepted(d, m) == TRUE

\* node.py:178 -- heartbeat_follower accepts the heartbeat.
HbAccepted(d, m) == term[d] <= m.term

\* node.py:180 -- heartbeat_follower calls reset_timeout (a new election
\* deadline) for the heartbeats it accepts, and for no other.
ResetsTimeout(d, m) == HbAccepted(d, m)

\* node.py:203, server.py:145-147 -- the reply of the heartbeat route: the
\* peer's term and commitIdx once heartbeat_follower is through.
HeartbeatReply(d) == [term |-> term[d], commitIdx |-> commitIdx[d]]

\* node.py:193-201 -- what heartbeat_follower does with the directive:
\* "stage", "commit" or "nothing".
Directive(d, m) ==
    IF m.action = "log" THEN "stage"
    ELSE IF m.action = "commit" /\ commitIdx[d] <= m.commitIdx THEN "commit"
    ELSE "nothing"

\* node.py:199-200 -- the entry a follower's commit appends.
FollowerCommitEntry(d, m) == IF Truthy(staged[d]) THEN staged[d] ELSE m.payload

\* server.py:145-147, node.py:173-203 -- heartbeat_follower on peer d.
HeartbeatFollower(d, m) ==
    IF HbAccepted(d, m)
    THEN /\ leader' = [leader EXCEPT ![d] = m.addr]
         /\ status' = [status EXCEPT ![d] = FOLLOWER]
         /\ timerAlive' = [timerAlive EXCEPT ![d] = IF status[d] = LEADER THEN TRUE ELSE @]
         /\ term' = [term EXCEPT ![d] = IF @ < m.term THEN m.term ELSE @]
         /\ CASE Directive(d, m) = "stage" ->
                    /\ staged' = [staged EXCEPT ![d] = m.payload]
                    /\ UNCHANGED <<commitIdx, log, DB>>
              [] Directive(d, m) = "commit" ->
                    LET e == FollowerCommitEntry(d, m)
                    IN /\ commitIdx' = [commitIdx EXCEPT ![d] = CommitIdxAfter(@)]
                       /\ log' = [log EXCEPT ![d] = LogAfterCommit(@, e)]
                       /\ DB' = [DB EXCEPT ![d] = DBAfterCommit(@, e)]
                       /\ staged' = [staged EXCEPT ![d] = NoEntry]
              [] OTHER -> UNCHANGED storeVars
    ELSE UNCHANGED <<leader, status, timerAlive, term, storeVars>>

\* utils.py:22-41, node.py:255-257 -- spread_update's utils.send of a
\* directive to fellow d: a live fellow runs heartbeat_follower and its
\* reply is a confirmation; a crashed one gives no reply (send returns None).
Reached(d) == d \notin down
SendDirective(d, m) ==
    IF Reached(d)
    THEN HeartbeatFollower(d, m)
    ELSE UNCHANGED <<leader, status, timerAlive, term, storeVars>>
Confirmations(conf, d) == IF Reached(d) THEN conf \cup {d} ELSE conf

\* node.py:147, server.py:134-147 -- a periodic heartbeat reaches the
\* follower; the reply carries the follower's term.
HbDeliver(h) ==
    /\ h \in hbs
    /\ h.pc = "req"
    /\ h.dst \notin down
    /\ HeartbeatFollower(h.dst, HbMsg(h.term, h.src, "none", NoEntry, 0))
    /\ hbs' = Replace(hbs, h, [h EXCEPT !.pc = "rep",
                                         !.rterm = HeartbeatReply(h.dst)'.term])
    /\ UNCHANGED <<envVars, voteCount, majority, lock, voteReqs, puts,
                   elections, nput>>

\* node.py:145-154, 160 -- send_heartbeat gets the reply; the handler finds
\* no higher term, and the loop goes on while the peer is leader.
HbReply(h) ==
    /\ h \in hbs
    /\ h.pc = "rep"
    /\ ~(h.rterm > term[h.src])
    /\ hbs' = IF status[h.src] = LEADER
              THEN Replace(hbs, h, [h EXCEPT !.pc = "req", !.rterm = 0])
              ELSE hbs \ {h}
    /\ UNCHANGED <<envVars, nodeVars, storeVars, lock, voteReqs, puts,
                   elections, nput>>

\* node.py:160-161 -- heartbeat_reply_handler finds a higher term and goes
\* on (past the print) to the step-down.
HbReplyHigher(h) ==
    /\ h \in hbs
    /\ h.pc = "rep"
    /\ h.rterm > term[h.src]
    /\ hbs' = Replace(hbs, h, [h EXCEPT !.pc = "down"])
    /\ UNCHANGED <<envVars, nodeVars, storeVars, lock, voteReqs, puts,
                   elections, nput>>

\* node.py:162-164, 145 -- heartbeat_reply_handler steps down; the loop of
\* send_heartbeat then ends.
HbStepDown(h) ==
    /\ h \in hbs
    /\ h.pc = "down"
    /\ term' = [term EXCEPT ![h.src] = h.rterm]
    /\ status' = [status EXCEPT ![h.src] = FOLLOWER]
    /\ timerAlive' = [timerAlive EXCEPT ![h.src] = TRUE]
    /\ hbs' = hbs \ {h}
    /\ UNCHANGED <<envVars, voteCount, majority, leader, storeVars, lock,
                   voteReqs, puts, elections, nput>>

\* --------------------------------------------------------------- write path

\* A faulty gate that never blocks: write serialization fails with it.
GateNeverBlocks(n) == TRUE

\* node.py:266 -- lock.acquire() returns only while the lock is free.
Acquirable(n) == ~lock[n]

\* node.py:279 -- the wait loop of handle_put ends with enough confirmations.
Quorum(n, conf) == Cardinality(conf) + 1 >= majority[n]

\* A handle_put invocation is over when it has returned and its log
\* broadcast thread has ended; its record is then dropped.  Fields of a
\* record that no thread reads any more (the confirmation list after the
\* wait loop, a directive after its broadcast) are cleared.
Settle(p) ==
    [p EXCEPT !.conf = IF p.pc = "wait" THEN @ ELSE {},
              !.lterm = IF p.lto = 0 THEN 0 ELSE @,
              !.lcidx = IF p.lto = 0 THEN 0 ELSE @,
              !.cterm = IF p.cto = 0 THEN 0 ELSE @,
              !.ccidx = IF p.cto = 0 THEN 0 ELSE @,
              !.payload = IF p.pc \in {"done", "raised"} /\ p.lto = 0
                          THEN NoEntry ELSE @]
Retire(S) == {Settle(p) : p \in {q \in S : ~(q.pc = "done" /\ q.lto = 0)}}

\* node.py:127-137 -- startHeartBeat, after handle_put returned, starts the
\* heartbeat threads; each ends at once unless the peer is leader.
HbAfterPut(p) == IF p.hb /\ status[p.node] = LEADER THEN HbThreads(p.node) ELSE {}

\* server.py:84-90 -- a client PUT reaches a leader, which calls handle_put.
\* The k-th PUT of a run carries the value k.
ClientPut(n) ==
    /\ n \in cluster
    /\ n \notin down
    /\ status[n] = LEADER
    /\ nput < scenario.puts
    /\ scenario.late => elections = scenario.elections
    /\ \E k \in Key : puts' = puts \cup {NewPut(n, Entry(k, nput + 1), FALSE)}
    /\ nput' = nput + 1
    /\ UNCHANGED <<envVars, nodeVars, storeVars, lock, voteReqs, hbs, elections>>

\* node.py:266-278 -- handle_put passes the gate, stages the payload, builds
\* the log directive and starts its broadcast thread.
PutAcquire(p) ==
    /\ p \in puts
    /\ p.pc = "acquire"
    /\ Acquirable(p.node)
    /\ lock' = [lock EXCEPT ![p.node] = TRUE]
    /\ staged' = [staged EXCEPT ![p.node] = p.payload]
    /\ puts' = Replace(puts, p,
            [p EXCEPT !.pc = "wait", !.lterm = term[p.node],
                      !.lcidx = commitIdx[p.node], !.lto = FirstFellow(p.node)])
    /\ UNCHANGED <<envVars, nodeVars, commitIdx, log, DB, voteReqs, hbs,
                   elections, nput>>

\* node.py:254-257, server.py:134-147 -- spread_update's send of the log
\* directive: the next fellow runs heartbeat_follower and replies, the
\* thread marks the confirmation (any reply counts) and goes on.
LogDeliver(p) ==
    /\ p \in puts
    /\ p.pc # "acquire"
    /\ p.lto # 0
    /\ SendDirective(p.lto, HbMsg(p.lterm, p.node, "log", p.payload, p.lcidx))
    /\ puts' = Retire(Replace(puts, p,
            [p EXCEPT !.conf = Confirmations(@, p.lto),
                      !.lto = NextFellow(p.node, p.lto)]))
    /\ UNCHANGED <<envVars, voteCount, majority, lock, voteReqs, hbs,
                   elections, nput>>

\* A faulty timeout path that returns False without releasing the gate: the
\* quorum-failure property fails with it.
PutTimeoutKeepsGate(p) ==
    /\ p \in puts
    /\ p.pc = "wait"
    /\ ~Quorum(p.node, p.conf)
    /\ puts' = Retire(Replace(puts, p, [p EXCEPT !.pc = "done", !.ret = "fail"]))
    /\ hbs' = hbs \cup HbAfterPut(p)
    /\ UNCHANGED <<envVars, nodeVars, storeVars, lock, voteReqs, elections, nput>>

\* node.py:279-285 -- the wait loop passes MAX_LOG_WAIT without a quorum:
\* release the gate, return False.
PutTimeout(p) ==
    /\ p \in puts
    /\ p.pc = "wait"
    /\ ~Quorum(p.node, p.conf)
    /\ lock' = [lock EXCEPT ![p.node] = FALSE]
    /\ puts' = Retire(Replace(puts, p, [p EXCEPT !.pc = "done", !.ret = "fail"]))
    /\ hbs' = hbs \cup HbAfterPut(p)
    /\ UNCHANGED <<envVars, nodeVars, storeVars, voteReqs, elections, nput>>

\* node.py:299-308 -- the entry handle_put's commit() appends: whatever the
\* staged slot holds then.
LeaderCommitEntry(p) == staged[p.node]

\* node.py:279, 287-297, 299-309, 250-259 -- the wait loop ends with a
\* quorum: build the commit directive (with the commitIdx before the
\* commit), commit the staged slot, start the commit broadcast (which
\* releases the gate when it ends; with no fellow it ends at once) and
\* return True.
PutCommit(p) ==
    /\ p \in puts
    /\ p.pc = "wait"
    /\ Quorum(p.node, p.conf)
    /\ Truthy(LeaderCommitEntry(p))
    /\ LET n == p.node
           e == LeaderCommitEntry(p)
           first == FirstFellow(n)
       IN /\ commitIdx' = [commitIdx EXCEPT ![n] = CommitIdxAfter(@)]
          /\ log' = [log EXCEPT ![n] = LogAfterCommit(@, e)]
          /\ DB' = [DB EXCEPT ![n] = DBAfterCommit(@, e)]
          /\ staged' = [staged EXCEPT ![n] = NoEntry]
          /\ lock' = [lock EXCEPT ![n] = IF first = 0 THEN FALSE ELSE @]
          /\ puts' = Retire(Replace(puts, p,
                [p EXCEPT !.pc = IF first = 0 THEN "done" ELSE "commit",
                          !.ret = "ok", !.cterm = term[n],
                          !.ccidx = commitIdx[n], !.cto = first]))
    /\ hbs' = hbs \cup HbAfterPut(p)
    /\ UNCHANGED <<envVars, nodeVars, voteReqs, elections, nput>>

\* node.py:294, 303-305 -- the wait loop ends with a quorum but the staged
\* slot is None: commit() increments commitIdx, appends None and raises
\* TypeError at self.staged["key"]; handle_put never releases the gate.
PutCommitRaises(p) ==
    /\ p \in puts
    /\ p.pc = "wait"
    /\ Quorum(p.node, p.conf)
    /\ ~Truthy(LeaderCommitEntry(p))
    /\ commitIdx' = [commitIdx EXCEPT ![p.node] = CommitIdxAfter(@)]
    /\ log' = [log EXCEPT ![p.node] = LogAfterCommit(@, NoEntry)]
    /\ puts' = Retire(Replace(puts, p, [p EXCEPT !.pc = "raised", !.ret = "error"]))
    /\ UNCHANGED <<envVars, nodeVars, DB, staged, lock, voteReqs, hbs,
                   elections, nput>>

\* node.py:254-259, server.py:134-147 -- spread_update's send of the commit
\* directive: the next fellow runs heartbeat_follower and replies; after the
\* last fellow the thread releases the gate.
CommitDeliver(p) ==
    /\ p \in puts
    /\ p.pc = "commit"
    /\ p.cto # 0
    /\ SendDirective(p.cto, HbMsg(p.cterm, p.node, "commit", p.payload, p.ccidx))
    /\ LET nxt == NextFellow(p.node, p.cto)
       IN /\ lock' = [lock EXCEPT ![p.node] = IF nxt = 0 THEN FALSE ELSE @]
          /\ puts' = Retire(Replace(puts, p,
                [p EXCEPT !.cto = nxt, !.pc = IF nxt = 0 THEN "done" ELSE @]))
    /\ UNCHANGED <<envVars, voteCount, majority, voteReqs, hbs, elections, nput>>

\* utils.py:36-41, node.py:254-257 -- spread_update's utils.send of the log
\* directive times out (the fellow is slow to answer): send returns None, no
\* confirmation is marked, and the thread goes on to the next fellow.
LogLost(p) ==
    /\ p \in puts
    /\ p.pc # "acquire"
    /\ p.lto # 0
    /\ scenario.loss
    /\ puts' = Retire(Replace(puts, p, [p EXCEPT !.lto = NextFellow(p.node, p.lto)]))
    /\ UNCHANGED <<envVars, nodeVars, storeVars, lock, voteReqs, hbs,
                   elections, nput>>

\* utils.py:36-41, node.py:254-259 -- the same for the commit directive; after
\* the last fellow the thread releases the gate.
CommitLost(p) ==
    /\ p \in puts
    /\ p.pc = "commit"
    /\ p.cto # 0
    /\ scenario.loss
    /\ LET nxt == NextFellow(p.node, p.cto)
       IN /\ lock' = [lock EXCEPT ![p.node] = IF nxt = 0 THEN FALSE ELSE @]
          /\ puts' = Retire(Replace(puts, p,
                [p EXCEPT !.cto = nxt, !.pc = IF nxt = 0 THEN "done" ELSE @]))
    /\ UNCHANGED <<envVars, nodeVars, storeVars, voteReqs, hbs, elections, nput>>

\* ------------------------------------------------------------ client routes

\* node.py:231-240 -- handle_get: the value a GET of key k returns on peer n
\* (0: the key is absent, None is returned).
HandleGet(n, k) == DB[n][k]

\* A faulty GET route that reads the local map whatever the role: the
\* redirect property fails with it.
GetReplyLocalRead(n, k) ==
    Reply("get", "success", Entry(k, 0), DB[n][k], FALSE, NoLeader)

\* server.py:47-69, node.py:231-240 -- value_get: a leader reads the key from
\* its map (the reply stays "fail" when the key is absent), a follower puts
\* its leader address in the payload, a candidate just fails.
GetReply(n, k) ==
    IF status[n] = LEADER
    THEN IF HandleGet(n, k) # 0
         THEN Reply("get", "success", Entry(k, 0), HandleGet(n, k), FALSE, NoLeader)
         ELSE Reply("get", "fail", Entry(k, 0), 0, FALSE, NoLeader)
    ELSE IF status[n] = FOLLOWER
         THEN Reply("get", "fail", Entry(k, 0), 0, TRUE, leader[n])
         ELSE Reply("get", "fail", Entry(k, 0), 0, FALSE, NoLeader)

ValueGet(n, k) ==
    /\ n \in cluster
    /\ n \notin down
    /\ reply' = GetReply(n, k)
    /\ UNCHANGED <<scenario, down, nodeVars, storeVars, lock, voteReqs, hbs, puts,
                   elections, nput>>

\* server.py:71-95 -- value_put on a peer that is not leader (on a leader it
\* calls handle_put: ClientPut): a follower echoes the payload with its
\* leader address, a candidate just fails.
ValuePut(n, e) ==
    /\ n \in cluster
    /\ n \notin down
    /\ status[n] # LEADER
    /\ reply' = IF status[n] = FOLLOWER
                THEN Reply("put", "fail", e, 0, TRUE, leader[n])
                ELSE Reply("put", "fail", NoEntry, 0, FALSE, NoLeader)
    /\ UNCHANGED <<scenario, down, nodeVars, storeVars, lock, voteReqs, hbs, puts,
                   elections, nput>>

\* server.py:9-33, node.py:322-339 -- value_delete: a leader deletes the key
\* from its map if it is there (handle_delete touches nothing else), a
\* follower echoes the payload with its leader address, a candidate just
\* fails.
ValueDelete(n, k) ==
    /\ n \in cluster
    /\ n \notin down
    /\ IF status[n] = LEADER
       THEN /\ DB' = [DB EXCEPT ![n][k] = 0]
            /\ reply' = Reply("delete", IF DB[n][k] # 0 THEN "success" ELSE "fail",
                              NoEntry, 0, FALSE, NoLeader)
       ELSE /\ DB' = DB
            /\ reply' = IF status[n] = FOLLOWER
                        THEN Reply("delete", "fail", Entry(k, 0), 0, TRUE, leader[n])
                        ELSE Reply("delete", "fail", NoEntry, 0, FALSE, NoLeader)
    /\ UNCHANGED <<scenario, down, nodeVars, commitIdx, log, staged, lock,
                   voteReqs, hbs, puts, elections, nput>>

\* server.py:98-112 -- leader_down: whatever the peer's role and whoever
\* sent the request, the peer is follower and init_timeout starts its timer
\* thread if it is not alive.
LeaderDown(n) ==
    /\ n \in cluster
    /\ n \notin down
    /\ status' = [status EXCEPT ![n] = FOLLOWER]
    /\ timerAlive' = [timerAlive EXCEPT ![n] = TRUE]
    /\ reply' = Reply("leader_down", "ok", NoEntry, 0, FALSE, NoLeader)
    /\ UNCHANGED <<scenario, down, term, voteCount, majority, leader, storeVars,
                   lock, voteReqs, hbs, puts, elections, nput>>

\* ------------------------------------------------------------------- crash

\* The process of leader n dies: its threads (ask_for_vote, send_heartbeat,
\* handle_put, spread_update, the Flask handlers) end with it, and every
\* utils.send to it from then on returns None (utils.py:36-41), so that
\* ask_for_vote retries (node.py:96-111) and send_heartbeat goes on to its
\* next round (node.py:145-154) without a reply.
VoteAfterCrash(r, n) ==
    IF r.dst = n
    THEN Answered([r EXCEPT !.pc = "req", !.choice = FALSE, !.rterm = 0])
    ELSE r
HbAfterCrash(h, n) ==
    IF h.dst = n THEN [h EXCEPT !.pc = "req", !.rterm = 0] ELSE h
\* The crash comes while the run's budget leaves a survivor an election that
\* can be won: its timer may still expire, and the term it would campaign in
\* is above the term of every peer.
CanStillCampaign(s) ==
    /\ s \in scenario.timers
    /\ timerAlive[s]
    /\ elections < scenario.elections
    /\ term[s] < MaxTerm
    /\ \A o \in cluster : term[o] <= term[s]
Crash(n) ==
    /\ n \in cluster
    /\ n \notin down
    /\ status[n] = LEADER
    /\ scenario.crash
    /\ down = {}
    /\ \E s \in cluster \ {n} : CanStillCampaign(s)
    /\ down' = down \cup {n}
    /\ timerAlive' = [timerAlive EXCEPT ![n] = FALSE]
    /\ voteReqs' = {VoteAfterCrash(r, n) : r \in {q \in voteReqs : q.src # n}}
    /\ hbs' = {HbAfterCrash(h, n) : h \in {q \in hbs : q.src # n}}
    /\ puts' = {p \in puts : p.node # n}
    /\ UNCHANGED <<scenario, reply, term, status, voteCount, majority, leader,
                   storeVars, lock, elections, nput>>

\* ------------------------------------------------------------ specification

Next ==
    \/ \E n \in Node : Timeout(n)
    \/ \E r \in voteReqs : DecideVote(r)
    \/ \E r \in voteReqs : DecideVoteGrant(r)
    \/ \E r \in voteReqs : VoteGranted(r)
    \/ \E r \in voteReqs : VoteNotCounted(r)
    \/ \E r \in voteReqs : VoteStepDown(r)
    \/ \E h \in hbs : HbDeliver(h)
    \/ \E h \in hbs : HbReply(h)
    \/ \E h \in hbs : HbReplyHigher(h)
    \/ \E h \in hbs : HbStepDown(h)
    \/ \E n \in Node : ClientPut(n)
    \/ \E p \in puts : PutAcquire(p)
    \/ \E p \in puts : LogDeliver(p)
    \/ \E p \in puts : PutTimeout(p)
    \/ \E p \in puts : PutCommit(p)
    \/ \E p \in puts : PutCommitRaises(p)
    \/ \E p \in puts : CommitDeliver(p)

Spec == Init /\ [][Next]_vars

\* The contention specification: no periodic heartbeat is scheduled, so the
\* heartbeat actions are left out of its next-state relation.
InitContend ==
    /\ scenario = Contention
    /\ InitNodes

NextContend ==
    \/ \E n \in Node : Timeout(n)
    \/ \E r \in voteReqs : DecideVote(r)
    \/ \E r \in voteReqs : DecideVoteGrant(r)
    \/ \E r \in voteReqs : VoteGranted(r)
    \/ \E r \in voteReqs : VoteNotCounted(r)
    \/ \E r \in voteReqs : VoteStepDown(r)
    \/ \E n \in Node : ClientPut(n)
    \/ \E p \in puts : PutAcquire(p)
    \/ \E p \in puts : LogDeliver(p)
    \/ \E p \in puts : PutTimeout(p)
    \/ \E p \in puts : PutCommit(p)
    \/ \E p \in puts : PutCommitRaises(p)
    \/ \E p \in puts : CommitDeliver(p)

SpecContend == InitContend /\ [][NextContend]_vars

\* The client-route specification: clients send GET, PUT, DELETE and
\* leader_down requests to every peer, whatever its role.
InitServe ==
    /\ scenario = Serving
    /\ InitNodes

NextServe ==
    \/ \E n \in Node : Timeout(n)
    \/ \E r \in voteReqs : DecideVote(r)
    \/ \E r \in voteReqs : DecideVoteGrant(r)
    \/ \E r \in voteReqs : VoteGranted(r)
    \/ \E r \in voteReqs : VoteNotCounted(r)
    \/ \E n \in Node : ClientPut(n)
    \/ \E p \in puts : PutAcquire(p)
    \/ \E p \in puts : LogDeliver(p)
    \/ \E p \in puts : PutTimeout(p)
    \/ \E p \in puts : PutCommit(p)
    \/ \E p \in puts : CommitDeliver(p)
    \/ \E n \in Node, k \in Key : ValueGet(n, k)
    \/ \E n \in Node, k \in Key : ValuePut(n, Entry(k, 1))
    \/ \E n \in Node, k \in Key : ValueDelete(n, k)
    \/ \E n \in Node : LeaderDown(n)

SpecServe == InitServe /\ [][NextServe]_vars

\* The leader-failure specification: the leader may crash.  The program's
\* own steps are weakly fair (a timer that may expire does, a request or
\* reply on the wire between live peers arrives, a thread that can run
\* does); client requests and the crash are not.
InitLive ==
    /\ scenario = LeaderFailure
    /\ InitNodes

ProgramStep ==
    \/ \E n \in Node : Timeout(n)
    \/ \E r \in voteReqs : DecideVote(r)
    \/ \E r \in voteReqs : DecideVoteGrant(r)
    \/ \E r \in voteReqs : VoteGranted(r)
    \/ \E r \in voteReqs : VoteNotCounted(r)
    \/ \E r \in voteReqs : VoteStepDown(r)
    \/ \E p \in puts : PutAcquire(p)
    \/ \E p \in puts : LogDeliver(p)
    \/ \E p \in puts : PutTimeout(p)
    \/ \E p \in puts : PutCommit(p)
    \/ \E p \in puts : PutCommitRaises(p)
    \/ \E p \in puts : CommitDeliver(p)

NextLive ==
    \/ ProgramStep
    \/ \E n \in Node : ClientPut(n)
    \/ \E n \in Node : Crash(n)

SpecLive == InitLive /\ [][NextLive]_vars /\ WF_vars(ProgramStep)

\* The convergence specification: a directive may be lost on its way to a
\* fellow.  The program's own steps are weakly fair, heartbeat rounds
\* included; client requests and losses are not.
InitConverge ==
    /\ scenario = Lossy
    /\ InitNodes

ConvergeStep ==
    \/ \E n \in Node : Timeout(n)
    \/ \E r \in voteReqs : DecideVote(r)
    \/ \E r \in voteReqs : DecideVoteGrant(r)
    \/ \E r \in voteReqs : VoteGranted(r)
    \/ \E r \in voteReqs : VoteNotCounted(r)
    \/ \E h \in hbs : HbDeliver(h)
    \/ \E h \in hbs : HbReply(h)
    \/ \E p \in puts : PutAcquire(p)
    \/ \E p \in puts : LogDeliver(p)
    \/ \E p \in puts : PutTimeout(p)
    \/ \E p \in puts : PutCommit(p)
    \/ \E p \in puts : CommitDeliver(p)

NextConverge ==
    \/ ConvergeStep
    \/ \E n \in Node : ClientPut(n)
    \/ \E p \in puts : LogLost(p)
    \/ \E p \in puts : CommitLost(p)

SpecConverge == InitConverge /\ [][NextConverge]_vars /\ WF_vars(ConvergeStep)

\* --------------------------------------------------------------- properties

\* Peer f holds entry e: in its staged slot or somewhere in its log.
Holds(f, e) == staged[f] = e \/ \E i \in 1..Len(log[f]) : log[f][i] = e

\* C1 -- election safety: in every reachable state no two peers of the
\* cluster are leader with the same currentTerm.
ElectionSafety ==
    \A a, b \in cluster :
        (a # b /\ status[a] = LEADER /\ status[b] = LEADER) => term[a] # term[b]

\* C2 -- majority durability: whenever handle_put commits an entry on a
\* leader and returns success, at least majority-1 fellows hold that entry
\* in their staged slot or their log at that moment.
MajorityDurability ==
    [][\A p \in puts :
          PutCommit(p) =>
             Cardinality({f \in fellow(p.node) : Holds(f, LeaderCommitEntry(p))})
                >= majority[p.node] - 1]_vars

\* C3 -- on every peer currentTerm never decreases, in any step of any of
\* its threads.
TermMonotone == [][\A n \in Node : term'[n] >= term[n]]_vars

\* C4 -- a peer that has finished processing a heartbeat, a vote reply or a
\* reply to a heartbeat it sent (periodic, log directive or commit
\* directive) carrying a term greater than its own is follower afterwards,
\* with a term at least the one carried.
StepDownOnHigherTerm ==
    [][/\ \A h \in hbs :
            (HbDeliver(h) /\ h.term > term[h.dst]) =>
                (status'[h.dst] = FOLLOWER /\ term'[h.dst] >= h.term)
       /\ \A h \in hbs :
            (h.pc \in {"rep", "down"} /\ h.rterm > term[h.src]
                /\ (HbReply(h) \/ HbStepDown(h))) =>
                (status'[h.src] = FOLLOWER /\ term'[h.src] >= h.rterm)
       /\ \A r \in voteReqs :
            (r.pc \in {"rep", "down"} /\ r.rterm > term[r.src]
                /\ r \notin voteReqs' /\ [r EXCEPT !.pc = "down"] \notin voteReqs') =>
                (status'[r.src] = FOLLOWER /\ term'[r.src] >= r.rterm)
       /\ \A p \in puts :
            (LogDeliver(p) /\ p.lterm > term[p.lto]) =>
                (status'[p.lto] = FOLLOWER /\ term'[p.lto] >= p.lterm)
       /\ \A p \in puts :
            (CommitDeliver(p) /\ p.cterm > term[p.cto]) =>
                (status'[p.cto] = FOLLOWER /\ term'[p.cto] >= p.cterm)
       /\ \A p \in puts :
            (LogDeliver(p) /\ term'[p.lto] > term[p.node]) =>
                (status'[p.node] = FOLLOWER /\ term'[p.node] >= term'[p.lto])
       /\ \A p \in puts :
            (CommitDeliver(p) /\ term'[p.cto] > term[p.node]) =>
                (status'[p.node] = FOLLOWER /\ term'[p.node] >= term'[p.cto])
      ]_vars

\* C5 -- on every peer the length of the committed log equals commitIdx,
\* after every completed operation (a leader's commit, a follower's commit,
\* or an operation that commits nothing).
LogLenIsCommitIdx == \A n \in Node : Len(log[n]) = commitIdx[n]

\* A leader and a follower have both committed.
LeaderAndFollowerCommitted ==
    \E a, b \in cluster :
        /\ a # b
        /\ status[a] = LEADER
        /\ commitIdx[a] >= 1
        /\ commitIdx[b] >= 1

\* C6 -- on every peer commitIdx never decreases, and a step changes it only
\* by +1, in a commit (the step that appends one entry to the peer's log).
CommitIdxMonotone ==
    [][\A n \in Node :
          \/ commitIdx'[n] = commitIdx[n]
          \/ /\ commitIdx'[n] = commitIdx[n] + 1
             /\ Len(log'[n]) = Len(log[n]) + 1]_vars

\* A peer has committed twice.
CommittedTwice == \E n \in cluster : commitIdx[n] = 2

\* The handle_put invocation p is between lock.acquire() and the release of
\* the lock (an invocation that raised in commit() never releases it).
InGate(p) == p.pc \in {"wait", "commit", "raised"}
GateHolders(S, n) == {p \in S : p.node = n /\ InGate(p)}

\* C7 -- write serialization: on every peer at most one handle_put
\* invocation is between acquiring the gate and its release; an invocation
\* stages its payload only when no other holds the gate; and the gate is
\* released only by the timeout of the wait loop or at the end of the commit
\* broadcast, after the directive went to every fellow.
WriteSerialization ==
    [][\A n \in cluster :
          /\ Cardinality(GateHolders(puts', n)) <= 1
          /\ \A p \in puts :
                (p.node = n /\ PutAcquire(p)) => GateHolders(puts, n) = {}
          /\ (lock[n] /\ ~lock'[n]) =>
                \E p \in GateHolders(puts, n) :
                    \/ p.pc = "wait" /\ ~Quorum(n, p.conf)
                    \/ p.pc = "wait" /\ fellow(n) = {}
                    \/ p.pc = "commit" /\ NextFellow(n, p.cto) = 0]_vars

\* One invocation holds the gate of a peer while a second one waits for it.
SecondPutWaits ==
    \E p, q \in puts :
        /\ p.node = q.node
        /\ InGate(p)
        /\ q.pc = "acquire"
        /\ lock[p.node]

\* C8 -- read-your-write on the leader: the entry handle_put commits is the
\* payload it was called with, so that a GET of the key on that peer right
\* after the successful return gives the value written.
ReadYourWrite ==
    [][\A p \in puts :
          PutCommit(p) =>
             /\ log'[p.node] = Append(log[p.node], p.payload)
             /\ HandleGet(p.node, p.payload.key)' = p.payload.value]_vars

\* C9, as stated -- quorum failure: when the wait loop of a PUT times out,
\* the gate is released and the leader's commitIdx and the length of its
\* log are those the PUT found (the commitIdx its log directive carries).
QuorumFailureLeavesLogAsBefore ==
    [][\A p \in puts :
          PutTimeout(p) =>
             /\ ~lock'[p.node]
             /\ commitIdx'[p.node] = p.lcidx
             /\ Len(log'[p.node]) = p.lcidx]_vars

\* C9, amended -- quorum failure: handle_put on its failure path (staging,
\* then timeout of the wait loop) changes neither log, commitIdx nor the
\* key/value map of any peer; the staging step writes the payload to the
\* staged slot and takes the gate, the timeout step releases the gate,
\* leaves the staged slot alone and returns failure.
QuorumFailureFrame ==
    [][\A p \in puts :
          /\ (PutAcquire(p) \/ PutTimeout(p)) =>
                (log' = log /\ commitIdx' = commitIdx /\ DB' = DB)
          /\ PutAcquire(p) => (staged'[p.node] = p.payload /\ lock'[p.node])
          /\ PutTimeout(p) =>
                /\ ~lock'[p.node]
                /\ staged' = staged
                /\ \E q \in puts' : q.node = p.node /\ q.ret = "fail"
                                     /\ q.payload = p.payload]_vars

\* A PUT has failed for want of a quorum on a peer that, while the PUT
\* waited, committed an entry another leader sent.
PutFailedAfterForeignCommit ==
    \E p \in puts : p.ret = "fail" /\ p.lto # 0 /\ commitIdx[p.node] > p.lcidx

\* C10 -- a single-node cluster: once its first election timeout has fired
\* the peer is leader.
SingleNodeElectsItself ==
    (cluster = {1} /\ term[1] >= 1) => status[1] = LEADER

\* The live peers.
Up == cluster \ down

\* C11 -- leader-failure liveness: once the leader has crashed, with the
\* other two peers alive and their messages delivered, eventually a surviving
\* peer is leader in a term above the crashed leader's.
LeaderFailureLiveness ==
    \A n \in Node :
        (n \in down) ~> (\E s \in Up : status[s] = LEADER /\ term[s] > term[n])

\* C12 -- committed writes survive leader change: once a PUT of (k, v), the
\* only write of the run, has returned success on a leader (its commit
\* broadcast still going on), every live peer that is leader in a term above
\* the one the PUT committed in answers a GET of k with v.
CommittedWriteSurvives ==
    \A p \in puts :
        (p.ret = "ok" /\ p.pc = "commit" /\ nput = 1) =>
            \A b \in Up :
                (status[b] = LEADER /\ term[b] > p.cterm) =>
                    HandleGet(b, p.payload.key) = p.payload.value

\* The reply decide_vote gives to request r: the choice and a term.
VoteReply(r, c, t) == Answered([r EXCEPT !.pc = "rep", !.choice = c, !.rterm = t])

\* C13 -- vote grant predicate: decide_vote goes on to grant exactly when
\* the receiver's term is below the request's, its commitIdx is at most the
\* request's, and the request's staged entry is non-empty or equal to the
\* receiver's; a request whose term is not above the receiver's is denied;
\* a denial changes nothing on the receiver and replies its own term; a
\* grant sets the receiver's term to the request's and replies that term.
VoteGrantPredicate ==
    [][\A r \in voteReqs :
          LET d == r.dst
              grant == /\ term[d] < r.term
                       /\ commitIdx[d] <= r.cidx
                       /\ (r.staged # NoEntry \/ staged[d] = r.staged)
          IN /\ DecideVote(r) =>
                  /\ grant <=> Answered([r EXCEPT !.pc = "grant"]) \in voteReqs'
                  /\ ~grant <=> VoteReply(r, FALSE, term[d]) \in voteReqs'
                  /\ r.term <= term[d] => ~grant
                  /\ ~grant => UNCHANGED <<nodeVars, storeVars, lock>>
             /\ DecideVoteGrant(r) =>
                  /\ term'[d] = r.term
                  /\ VoteReply(r, TRUE, r.term) \in voteReqs'
                  /\ UNCHANGED <<status, leader, storeVars, lock>>]_vars

\* One request has been granted and another denied for its term, which is
\* not above the receiver's.
VoteGrantedAndDenied ==
    \E r, q \in voteReqs :
        /\ r.pc = "rep" /\ r.choice /\ term[r.dst] = r.term
        /\ q.pc = "rep" /\ ~q.choice /\ q.term <= q.rterm

\* C14 -- a follower's commitIdx is at most the commitIdx carried by the
\* heartbeat with a commitIdx field it accepted last: right after a peer has
\* accepted a log or a commit directive (and applied it), its commitIdx is
\* at most the one the directive carries.
FollowerCommitIdxBounded ==
    [][\A p \in puts :
          /\ (LogDeliver(p) /\ Reached(p.lto) /\ term[p.lto] <= p.lterm) =>
                (status'[p.lto] = FOLLOWER /\ commitIdx'[p.lto] <= p.lcidx)
          /\ (CommitDeliver(p) /\ Reached(p.cto) /\ term[p.cto] <= p.cterm) =>
                (status'[p.cto] = FOLLOWER /\ commitIdx'[p.cto] <= p.ccidx)]_vars

\* C15 -- client requests at a follower are redirected without effect: a
\* GET, PUT or DELETE served by a follower changes nothing on any peer, reads
\* no value from the map into its reply, and replies code fail with the
\* follower's leader address (None or a peer) as the redirect target.
FollowerRedirects ==
    [][\A n \in cluster, k \in Key :
          (status[n] = FOLLOWER
             /\ (ValueGet(n, k) \/ ValuePut(n, Entry(k, 1)) \/ ValueDelete(n, k))) =>
                /\ reply'.code = "fail"
                /\ reply'.read = 0
                /\ reply'.redirect
                /\ reply'.message = leader[n]
                /\ UNCHANGED <<nodeVars, storeVars, lock, puts>>]_vars

\* A follower whose map holds the key has answered a GET with a redirect to
\* its leader.
FollowerWithValueRedirected ==
    \E n \in cluster :
        /\ status[n] = FOLLOWER
        /\ DB[n]["x"] # 0
        /\ leader[n] # NoLeader
        /\ reply = Reply("get", "fail", Entry("x", 0), 0, TRUE, leader[n])

\* C16 -- a heartbeat (periodic, log directive or commit directive) whose
\* term is below the receiver's changes nothing on the receiver: role, term,
\* leader address, staged slot, log, commitIdx and map are as before, the
\* election deadline is not reset nor the timer restarted, and the reply
\* carries the receiver's own, higher, term and its commitIdx.
StaleHeartbeatIgnored ==
    [][LET Ignored(d, m) ==
              /\ status'[d] = status[d] /\ term'[d] = term[d]
              /\ leader'[d] = leader[d] /\ staged'[d] = staged[d]
              /\ log'[d] = log[d] /\ commitIdx'[d] = commitIdx[d]
              /\ DB'[d] = DB[d]
              /\ timerAlive'[d] = timerAlive[d] /\ ~ResetsTimeout(d, m)
              /\ HeartbeatReply(d)' = [term |-> term[d], commitIdx |-> commitIdx[d]]
              /\ HeartbeatReply(d)'.term > m.term
       IN /\ \A h \in hbs :
                (h.term < term[h.dst] /\ HbDeliver(h)) =>
                    /\ Ignored(h.dst, HbMsg(h.term, h.src, "none", NoEntry, 0))
                    /\ [h EXCEPT !.pc = "rep", !.rterm = term[h.dst]] \in hbs'
          /\ \A p \in puts :
                (p.lto # 0 /\ Reached(p.lto) /\ p.lterm < term[p.lto] /\ LogDeliver(p)) =>
                    Ignored(p.lto, HbMsg(p.lterm, p.node, "log", p.payload, p.lcidx))
          /\ \A p \in puts :
                (p.cto # 0 /\ Reached(p.cto) /\ p.cterm < term[p.cto] /\ CommitDeliver(p)) =>
                    Ignored(p.cto, HbMsg(p.cterm, p.node, "commit", p.payload, p.ccidx))
      ]_vars

\* A peer has answered a log directive of a term below its own, and has
\* staged nothing (it has committed nothing either).
StaleLogDirectiveAnswered ==
    \E p \in puts, d \in cluster :
        /\ p.pc = "wait" /\ p.lto # 0
        /\ d \in p.conf
        /\ p.lterm < term[d]
        /\ Truthy(p.payload)
        /\ staged[d] = NoEntry /\ commitIdx[d] = 0
        /\ leader[d] # p.node

\* C17 -- a peer becomes leader in term T only as candidate of term T, by
\* votes granted for term T: every granted reply that ask_for_vote adds to
\* the tally reaches a candidate and answers a request of its current term.
TallyCountsCurrentTerm ==
    [][\A r \in voteReqs :
          (r.pc = "rep" /\ r.choice /\ VoteGranted(r)) =>
              /\ status[r.src] = CANDIDATE
              /\ r.term = term[r.src]]_vars

\* C18 -- a leader or candidate that grants a vote to a request of a term
\* above its own, adopting that term, is follower afterwards.
GrantingVoteStepsDown ==
    [][\A r \in voteReqs :
          (r.pc = "grant"
             /\ status[r.dst] \in {LEADER, CANDIDATE}
             /\ r.term > term[r.dst]
             /\ DecideVoteGrant(r)) =>
                (term'[r.dst] = r.term => status'[r.dst] = FOLLOWER)]_vars

\* C19 -- a leader leaves the leader role only by becoming follower on a
\* heartbeat (periodic, log or commit directive), a heartbeat reply or a vote
\* reply whose term is strictly above its own: every step that takes a peer
\* out of the leader role is one of these.
LeaderDemotedOnlyByHigherTerm ==
    [][\A n \in cluster :
          (status[n] = LEADER /\ status'[n] # LEADER) =>
              /\ status'[n] = FOLLOWER
              /\ \/ \E h \in hbs : h.dst = n /\ h.term > term[n] /\ HbDeliver(h)
                 \/ \E p \in puts : p.lto = n /\ p.lterm > term[n] /\ LogDeliver(p)
                 \/ \E p \in puts : p.cto = n /\ p.cterm > term[n] /\ CommitDeliver(p)
                 \/ \E h \in hbs : h.src = n /\ h.rterm > term[n] /\ HbStepDown(h)
                 \/ \E r \in voteReqs : r.src = n /\ r.rterm > term[n] /\ VoteStepDown(r)
      ]_vars

\* C20 -- the write gate is always eventually released: whenever the gate
\* of a live peer is held, it is free again later (or the peer has crashed).
GateEventuallyReleased ==
    \A n \in Node :
        (lock[n] /\ n \notin down) ~> (~lock[n] \/ n \in down)

\* C21 -- the write gate keeps a leader's directives apart at its followers:
\* between the log directive of a PUT that commits and its commit directive,
\* a follower handles no log directive of the same leader for another entry;
\* and the entry a follower appends on a commit directive is the payload the
\* directive carries.
NoInterleavedDirectives ==
    [][\A p \in puts :
          /\ \A q \in puts :
                ~ /\ p.pc = "commit" /\ p.cto # 0
                  /\ q.node = p.node /\ q.payload # p.payload
                  /\ q.lto # 0 /\ q.lto >= p.cto /\ Reached(q.lto)
                  /\ (p.lto = 0 \/ p.lto > q.lto)
                  /\ LogDeliver(q)
          /\ (/\ p.cto # 0 /\ Reached(p.cto)
              /\ Len(log'[p.cto]) = Len(log[p.cto]) + 1
              /\ CommitDeliver(p)) =>
                 log'[p.cto] = Append(log[p.cto], p.payload)]_vars

\* C22 -- follower convergence: when a leader has committed further than a
\* follower and no write is in progress or still to come (the follower
\* missed the commit directive), then, the leader's heartbeats being
\* delivered, eventually the follower's commitIdx has reached the leader's
\* or the leader is no longer leader.
FollowerConverges ==
    \A l, f \in Node :
        (/\ l \in cluster /\ f \in cluster
         /\ status[l] = LEADER /\ status[f] = FOLLOWER
         /\ commitIdx[f] < commitIdx[l]
         /\ puts = {} /\ nput = scenario.puts)
        ~> (commitIdx[f] >= commitIdx[l] \/ status[l] # LEADER)

\* C23 -- log matching: in every reachable state the committed logs of any
\* two peers agree at every index below both peers' commitIdx (one log is a
\* prefix of the other).
LogMatching ==
    \A a, b \in cluster :
        \A i \in 1..Len(log[a]) :
            (i <= commitIdx[a] /\ i <= commitIdx[b] /\ i <= Len(log[b])) =>
                log[a][i] = log[b][i]

\* C24 -- one vote per term: when decide_vote grants a vote for term T, the
\* peer has granted no vote to another candidate of T (no such grant is on
\* its way back) and has not voted for itself in T (it has no vote request
\* of its own for T).
OneVotePerTerm ==
    [][\A r \in voteReqs :
          (r.pc = "grant" /\ DecideVoteGrant(r)) =>
              /\ ~\E q \in voteReqs :
                    /\ q.dst = r.dst /\ q.src # r.src /\ q.term = r.term
                    /\ q.pc = "rep" /\ q.choice
              /\ ~\E q \in voteReqs : q.src = r.dst /\ q.term = r.term]_vars

\* C25 -- commit never runs on an empty staged slot: every element of every
\* peer's committed log is a {key, value} entry, never None, and no
\* handle_put invocation has ended in commit() raising.
CommittedEntriesWellFormed ==
    /\ \A n \in cluster : \A i \in 1..Len(log[n]) : Truthy(log[n][i])
    /\ \A p \in puts : p.pc # "raised"

====
